---------------------------- MODULE Spec2Model ----------------------------
(***************************************************************************)
(* QuizBusterBack: the authentication-and-scoring core.                    *)
(*                                                                         *)
(* State: the "User" table, the wall clock, the bearer tokens that clients *)
(* hold, and one record per request worker (its request, its position in   *)
(* the handler, its database connection, its locals and its response).     *)
(* A handler advances one database statement at a time; everything a       *)
(* handler does between two statements is local and belongs to the step of *)
(* the statement that precedes it.                                         *)
(***************************************************************************)
EXTENDS Integers, Sequences, FiniteSets, TLC

(***************************************************************************)
(* Bounds of the model.                                                    *)
(***************************************************************************)
\* request workers that run concurrently
NumProcs == 2
\* distinct bcrypt salts the hasher can draw
NumSalts == 2
\* clock ticks per second: the clock is finer than the whole seconds of "exp"
TicksPerSecond == 2
\* the clock is observed within this many ticks of 0 and of the token lifetime
ClockWindow == 1
\* tokens that clients keep at the same time
MaxHeld == 2
\* update_points calls in one run
MaxCalls == 2
\* score of the row the table holds at start
InitScore == 3
\* rows of the "Achievement" table
MaxAchievements == 2
\* largest limit handed to get_scores besides the one of the route
MaxLimit == 2
\* largest "ID" of the "Question" table
MaxQuestions == 2

(***************************************************************************)
(* Program constants.                                                      *)
(***************************************************************************)
ACCESS_TOKEN_EXPIRE_MINUTES == 30
SECRET_KEY == "4ddbb4ed971024eba33f24912a5e229c72e02c40f8fcb467a34b5b99fbb08d35"

\* get_leaderboard(count=10) of the route GET /score
LeaderboardCount == 10

Procs == 1..NumProcs
Salts == 1..NumSalts
Usernames == {"alice", "bob"}
Points == {-1, 0, 1}

\* bcrypt hashes the first 72 bytes of a password (passlib: truncate_size,
\* truncate_error off) and ignores the rest
truncate_size == 72
\* passwords, as sequences of characters: the empty one, a short one, and two
\* of truncate_size + 1 characters that differ in the last one only
Empty == << >>
Pw == <<"p", "w">>
LongX == [i \in 1..(truncate_size + 1) |-> IF i > truncate_size THEN "x" ELSE "a"]
LongY == [i \in 1..(truncate_size + 1) |-> IF i > truncate_size THEN "y" ELSE "a"]
Passwords == {Empty, Pw, LongX, LongY}

\* SQL NULL / Python None, and a present value
NULL == << >>
Some(v) == <<v>>

(***************************************************************************)
(* Clock.  One tick is 1/TicksPerSecond s.                                 *)
(***************************************************************************)
TTLTicks == ACCESS_TOKEN_EXPIRE_MINUTES * 60 * TicksPerSecond
MaxNow == TTLTicks + ClockWindow
ClockSamples == (0..ClockWindow) \cup ((TTLTicks - ClockWindow)..MaxNow)

VARIABLES
    User,      \* the "User" table: a set of rows
    now,       \* datetime.now(timezone.utc), in ticks
    held,      \* the tokens in the hands of clients, each with its time of issue
    pc,        \* per worker: position in the handler
    req,       \* per worker: the request being served (kept after the response)
    conn,      \* per worker: the psycopg connection of the running operation
    user,      \* per worker: the UserModel read by get_user_data
    result,    \* per worker: the last HTTP response
    calls,     \* history: the number of update_points calls begun
    User_Achievement,  \* the "User_Achievement" table: (username, achievement_id)
    Question   \* the "Question" table: a set of rows

vars == <<User, now, held, pc, req, conn, user, result, calls,
          User_Achievement, Question>>

(***************************************************************************)
(* Credential hasher (passlib CryptContext, bcrypt).                       *)
(***************************************************************************)
\* the bytes of the password that bcrypt reads
Truncate(password) ==
    IF Len(password) > truncate_size THEN SubSeq(password, 1, truncate_size)
    ELSE password

\* pwd_context.hash(password): salted, so two hashes of one password differ
bcrypt(password, salt) ==
    [scheme |-> "bcrypt", salt |-> salt, digest |-> <<salt, Truncate(password)>>]

get_password_hash(password, salt) == bcrypt(password, salt)

\* a password written to the column as the caller sent it: text that
\* passlib identifies as no hash of any scheme
Plain(password) == [scheme |-> "none", text |-> password]

verify_password(plain_password, hashed_password) ==
    /\ hashed_password.scheme = "bcrypt"
    /\ hashed_password.digest = <<hashed_password.salt, Truncate(plain_password)>>

(***************************************************************************)
(* Token codec (PyJWT, HS256).                                             *)
(***************************************************************************)
\* a signature that depends on the key alone, not on the claims
HS256_unbound(payload, key) == <<key, "any claims">>

\* HMAC over the payload: only the holder of the key produces it
HS256(payload, key) == <<key, payload>>

\* jwt.encode: a datetime "exp" is written as whole seconds (timegm of the
\* utctimetuple), the sub-second part is dropped
jwt_encode(payload, expire, key) ==
    LET claims == payload @@ [exp |-> expire \div TicksPerSecond]
    IN  [fmt |-> "jwt", payload |-> claims, sig |-> HS256(claims, key)]
\* create_access_token with the lifetime taken as seconds, not minutes
create_access_token_seconds(data, t) ==
    jwt_encode(data, t + ACCESS_TOKEN_EXPIRE_MINUTES * TicksPerSecond, SECRET_KEY)

\* create_access_token(data): expire = now + ACCESS_TOKEN_EXPIRE_MINUTES
create_access_token(data, t) ==
    jwt_encode(data, t + TTLTicks, SECRET_KEY)
\* jwt.decode that treats a token as expired one second before its "exp"
jwt_decode_early(token, key, t) ==
    IF token.fmt # "jwt"
    THEN [ok |-> FALSE, error |-> "DecodeError"]
    ELSE IF token.sig # HS256(token.payload, key)
    THEN [ok |-> FALSE, error |-> "InvalidSignatureError"]
    ELSE IF (token.payload.exp - 1) * TicksPerSecond <= t
    THEN [ok |-> FALSE, error |-> "ExpiredSignatureError"]
    ELSE [ok |-> TRUE, payload |-> token.payload]

\* jwt.decode that does not look at "exp"
jwt_decode_no_exp(token, key, t) ==
    IF token.fmt # "jwt"
    THEN [ok |-> FALSE, error |-> "DecodeError"]
    ELSE IF token.sig # HS256(token.payload, key)
    THEN [ok |-> FALSE, error |-> "InvalidSignatureError"]
    ELSE [ok |-> TRUE, payload |-> token.payload]

\* jwt.decode that reports every failure as the same DecodeError
jwt_decode_one_kind(token, key, t) ==
    IF \/ token.fmt # "jwt"
       \/ token.sig # HS256(token.payload, key)
       \/ token.payload.exp * TicksPerSecond <= t
    THEN [ok |-> FALSE, error |-> "DecodeError"]
    ELSE [ok |-> TRUE, payload |-> token.payload]

\* jwt.decode with verification switched off: any parseable token decodes
jwt_decode_unverified(token, key, t) ==
    IF token.fmt # "jwt" THEN [ok |-> FALSE, error |-> "DecodeError"]
    ELSE [ok |-> TRUE, payload |-> token.payload]

\* jwt.decode(token, key, algorithms): parse, check the signature, then "exp"
jwt_decode(token, key, t) ==
    IF token.fmt # "jwt"
    THEN [ok |-> FALSE, error |-> "DecodeError"]
    ELSE IF token.sig # HS256(token.payload, key)
    THEN [ok |-> FALSE, error |-> "InvalidSignatureError"]
    ELSE IF token.payload.exp * TicksPerSecond <= t
    THEN [ok |-> FALSE, error |-> "ExpiredSignatureError"]
    ELSE [ok |-> TRUE, payload |-> token.payload]

(***************************************************************************)
(* HTTP responses.                                                         *)
(***************************************************************************)
NoResult == [status |-> 0, detail |-> "none"]
\* HTTPException(status_code, detail)
HTTPException(status, detail) == [status |-> status, detail |-> detail]
\* an exception no handler catches: the server answers 500
Unhandled(exc) == [status |-> 500, detail |-> exc]
\* Token(access_token, token_type="bearer")
TokenResponse(token) == [status |-> 200, detail |-> "bearer", access_token |-> token]
\* Score(points)
ScoreResponse(points) == [status |-> 200, detail |-> "score", points |-> points]

credentials_exception == HTTPException(401, "Could not validate credentials")

(***************************************************************************)
(* The "User" table.                                                       *)
(***************************************************************************)
Row(username, password, role, score) ==
    [username |-> username, password |-> password, role |-> role, score |-> score]

\* SELECT ... WHERE "username" = %s; fetchone(): a row or None
fetchone(table, username) ==
    IF \E r \in table : r.username = username
    THEN Some(CHOOSE r \in table : r.username = username)
    ELSE NULL

\* UserModel(username, password, score)
UserModel(username, password, score) ==
    [username |-> username, password |-> password, score |-> score]

\* create_user(user_result): subscripting None raises TypeError
create_user(user_result) ==
    IF user_result = NULL
    THEN [raised |-> "TypeError"]
    ELSE [raised |-> "",
          value |-> UserModel(user_result[1].username, user_result[1].password,
                              user_result[1].score)]
\* user_exists with its test turned around: True exactly when no row is found
user_exists_inverted(table, username) == fetchone(table, username) = NULL

\* user_exists(username): SELECT 1 ...; fetchone() is not None
user_exists(table, username) == fetchone(table, username) # NULL
\* insert_user that also writes the score column, with 0
insert_user_scored(table, username, password, role) ==
    IF \E r \in table : r.username = username
    THEN [raised |-> "UniqueViolation", table |-> table]
    ELSE [raised |-> "", table |-> table \cup {Row(username, password, role, Some(0))}]

\* insert_user as an upsert: a second INSERT for a username replaces the row
insert_user_upsert(table, username, password, role) ==
    [raised |-> "",
     table  |-> {r \in table : r.username # username}
                    \cup {Row(username, password, role, NULL)}]

\* INSERT INTO "User": username is the PRIMARY KEY, a second row with the
\* same username raises UniqueViolation and inserts nothing
insert_user(table, username, password, role) ==
    IF \E r \in table : r.username = username
    THEN [raised |-> "UniqueViolation", table |-> table]
    ELSE [raised |-> "", table |-> table \cup {Row(username, password, role, NULL)}]

\* get_user_data that closes the connection only after create_user returned
get_user_data_leaky(table, username, connection) ==
    LET made == create_user(fetchone(table, username))
    IN  made @@ [conn |-> IF made.raised # "" THEN "open" ELSE "closed"]

\* get_user_data(username, connection): SELECT, then cur.close() and
\* conn.close() on whichever connection was used, then create_user
get_user_data(table, username, connection) ==
    create_user(fetchone(table, username)) @@ [conn |-> "closed"]

\* get_user(username) = get_user_data(username=username)
get_user(table, username) == get_user_data(table, username, "none")

(***************************************************************************)
(* Tokens in the hands of clients.                                         *)
(***************************************************************************)
\* a token in a client's hands, and the time the server issued it
Held(token, sub, t) == [token |-> token, sub |-> sub, iat |-> t]

\* a client that receives a token keeps it, dropping an older one when it
\* already keeps MaxHeld of them
Keep(h) ==
    IF h \in held THEN {held}
    ELSE IF Cardinality(held) < MaxHeld THEN {held \cup {h}}
    ELSE {(held \ {old}) \cup {h} : old \in held}

(***************************************************************************)
(* Initial state: the table holds alice, nobody holds a token.             *)
(***************************************************************************)
Init ==
    /\ User = {Row("alice", bcrypt(Pw, 1), "user", Some(InitScore))}
    /\ now = 0
    /\ held = {}
    /\ pc = [p \in Procs |-> "idle"]
    /\ req = [p \in Procs |-> [op |-> "none"]]
    /\ conn = [p \in Procs |-> "none"]
    /\ user = [p \in Procs |-> NULL]
    /\ result = [p \in Procs |-> NoResult]
    /\ calls = 0
    /\ User_Achievement = {}
    /\ Question = {}

\* the users a leaderboard may hold besides alice and bob
Seeded == {"carol", "dave"}

\* the score column of a row: NULL or a number
Scores == {NULL, Some(0), Some(InitScore), Some(InitScore + 1)}

\* a table that holds alice and any of the other users, each with any score
InitBoard ==
    /\ \E present \in SUBSET Seeded, score \in [Seeded \cup {"alice"} -> Scores] :
         /\ score["alice"] \in {NULL, Some(InitScore)}
         /\ \A u \in Seeded \ present : score[u] = NULL
         /\ User = {Row(u, bcrypt(Pw, 1), "user", score[u])
                       : u \in present \cup {"alice"}}
    /\ now = 0
    /\ held = {}
    /\ pc = [p \in Procs |-> "idle"]
    /\ req = [p \in Procs |-> [op |-> "none"]]
    /\ conn = [p \in Procs |-> "none"]
    /\ user = [p \in Procs |-> NULL]
    /\ result = [p \in Procs |-> NoResult]
    /\ calls = 0
    /\ User_Achievement = {}
    /\ Question = {}

\* the worker answers and is free again
Respond(p, r) ==
    /\ pc' = [pc EXCEPT ![p] = "idle"]
    /\ result' = [result EXCEPT ![p] = r]

(***************************************************************************)
(* POST /register -> register(user)                                        *)
(***************************************************************************)
\* a request arrives at a free worker
Accept(p, r) ==
    /\ pc[p] = "idle"
    /\ req' = [req EXCEPT ![p] = r]

\* if user_exists(username): raise HTTPException(409)
RegisterCheck(p, username, password) ==
    /\ Accept(p, [op |-> "register", username |-> username, password |-> password])
    /\ IF user_exists(User, username)
       THEN Respond(p, HTTPException(409, "Benutzername bereits vergeben"))
       ELSE /\ pc' = [pc EXCEPT ![p] = "insert_user"]
            /\ result' = [result EXCEPT ![p] = NoResult]
    /\ conn' = [conn EXCEPT ![p] = "closed"]
    /\ user' = [user EXCEPT ![p] = NULL]
    /\ UNCHANGED <<User, now, held, calls, User_Achievement, Question>>

\* hashed_password = get_password_hash(...); insert_user(...);
\* create_access_token({"sub": username}); return Token
RegisterInsert(p) ==
    /\ pc[p] = "insert_user"
    /\ \E salt \in Salts :
         LET ins == insert_user(User, req[p].username,
                                get_password_hash(req[p].password, salt), "user")
             token == create_access_token([sub |-> req[p].username], now)
         IN  IF ins.raised # ""
             THEN /\ Respond(p, Unhandled(ins.raised))
                  /\ UNCHANGED <<User, held>>
             ELSE /\ User' = ins.table
                  /\ held' \in Keep(Held(token, req[p].username, now))
                  /\ Respond(p, TokenResponse(token))
    /\ conn' = [conn EXCEPT ![p] = "closed"]
    /\ UNCHANGED <<now, req, user, calls, User_Achievement, Question>>

(***************************************************************************)
(* POST /token -> login(form_data)                                         *)
(***************************************************************************)
\* authenticate_user(username, password): get_user, then "if not user",
\* then verify_password; an exception of get_user passes through, and so
\* does the UnknownHashError of pwd_context.verify for a column that
\* holds no hash
authenticate_user(table, username, password) ==
    LET got == get_user(table, username)
    IN  IF got.raised # "" THEN [raised |-> got.raised]
        ELSE IF got.value.password.scheme # "bcrypt"
        THEN [raised |-> "UnknownHashError"]
        ELSE IF ~verify_password(password, got.value.password)
        THEN [raised |-> "", value |-> NULL]
        ELSE [raised |-> "", value |-> Some(got.value)]

\* login: 401 when authenticate_user returns None, else a token for the user
login(table, username, password, t) ==
    LET auth == authenticate_user(table, username, password)
    IN  IF auth.raised # "" THEN Unhandled(auth.raised)
        ELSE IF auth.value = NULL
        THEN HTTPException(401, "Falscher Nutzername oder Passwort")
        ELSE TokenResponse(create_access_token([sub |-> auth.value[1].username], t))

Login(p, username, password) ==
    /\ Accept(p, [op |-> "login", username |-> username, password |-> password])
    /\ LET r == login(User, username, password, now)
       IN  /\ Respond(p, r)
           /\ IF r.status = 200
              THEN held' \in Keep(Held(r.access_token, username, now))
              ELSE UNCHANGED held
    /\ conn' = [conn EXCEPT ![p] = get_user(User, username).conn]
    /\ user' = [user EXCEPT ![p] = NULL]
    /\ UNCHANGED <<User, now, calls, User_Achievement, Question>>

(***************************************************************************)
(* POST /register of Microservice/quizbuster_service.py, and the script    *)
(* Database/database_operations.py                                         *)
(***************************************************************************)
\* if user_exists(user.username): raise HTTPException(404)
QuizbusterCheck(p, username, password) ==
    /\ Accept(p, [op |-> "quizbuster_register", username |-> username,
                  password |-> password])
    /\ IF user_exists(User, username)
       THEN Respond(p, HTTPException(404, "Benutzername bereits vergeben"))
       ELSE /\ pc' = [pc EXCEPT ![p] = "quizbuster_insert"]
            /\ result' = [result EXCEPT ![p] = NoResult]
    /\ conn' = [conn EXCEPT ![p] = "closed"]
    /\ user' = [user EXCEPT ![p] = NULL]
    /\ UNCHANGED <<User, now, held, calls, User_Achievement, Question>>

\* insert_user(user.username, user.password, "user"); return {"message": ...}
QuizbusterInsert(p) ==
    /\ pc[p] = "quizbuster_insert"
    /\ LET ins == insert_user(User, req[p].username, Plain(req[p].password), "user")
       IN  IF ins.raised # ""
           THEN /\ Respond(p, Unhandled(ins.raised))
                /\ UNCHANGED User
           ELSE /\ User' = ins.table
                /\ Respond(p, [status |-> 200, detail |-> "erstellt"])
    /\ conn' = [conn EXCEPT ![p] = "closed"]
    /\ UNCHANGED <<now, held, req, user, calls, User_Achievement, Question>>

\* database_operations.insert_user: psycopg.connect(host=ip, ...) names
\* variables that Config.postgres_config does not define; the NameError is
\* caught by "except Exception", printed, and nothing is inserted
database_operations_insert_user(table, username, password, role) ==
    [raised |-> "", printed |-> "NameError", table |-> table]

\* running the module: insert_user("Maxi", "admin1", "admin")
RunDatabaseOperations(p) ==
    /\ Accept(p, [op |-> "database_operations", username |-> "Maxi",
                  password |-> <<"a", "d", "m", "i", "n", "1">>])
    /\ LET ins == database_operations_insert_user(User, "Maxi",
                       Plain(<<"a", "d", "m", "i", "n", "1">>), "admin")
       IN  /\ User' = ins.table
           /\ Respond(p, [status |-> 0, detail |-> ins.printed])
    /\ conn' = [conn EXCEPT ![p] = "none"]
    /\ user' = [user EXCEPT ![p] = NULL]
    /\ UNCHANGED <<now, held, calls, User_Achievement, Question>>

(***************************************************************************)
(* PATCH /user/score -> verify_user_token, update_score, update_points     *)
(***************************************************************************)
\* bearer strings no register or login of this server returned
Garbage == [fmt |-> "garbage"]
FarExp == (MaxNow \div TicksPerSecond) + 1
WrongKey ==
    [fmt |-> "jwt", payload |-> [sub |-> "alice", exp |-> FarExp],
     sig |-> HS256([sub |-> "alice", exp |-> FarExp], "another key")]
NoSub ==
    [fmt |-> "jwt", payload |-> [exp |-> FarExp],
     sig |-> HS256([exp |-> FarExp], SECRET_KEY)]
Crafted == {Garbage, WrongKey, NoSub}

\* an issued token whose subject or expiry a client altered after signing:
\* the claims change, the signature is the one the server made
Tampered(token) ==
    {[token EXCEPT !.payload.sub = u] : u \in Usernames \ {token.payload.sub}}
        \cup {[token EXCEPT !.payload.exp = e] :
                  e \in {token.payload.exp + 1, FarExp} \ {token.payload.exp}}

\* verify_user_token that reads the subject and calls get_user before it
\* checks the result of decoding
verify_user_token_lookup_first(table, token, t) ==
    LET dec == jwt_decode(token, SECRET_KEY, t)
        named == token.fmt = "jwt" /\ "sub" \in DOMAIN token.payload
        got == get_user(table, token.payload.sub)
    IN  IF ~named THEN [response |-> credentials_exception, lookups |-> << >>]
        ELSE IF ~dec.ok
        THEN [response |-> credentials_exception, lookups |-> <<token.payload.sub>>]
        ELSE IF got.raised # ""
        THEN [response |-> Unhandled(got.raised), lookups |-> <<token.payload.sub>>]
        ELSE [response |-> NoResult, lookups |-> <<token.payload.sub>>,
              current_user |-> got.value]

\* verify_user_token(token): decode, payload.get("sub"), get_user;
\* InvalidTokenError, a missing sub and a user of None give the 401
\* "lookups" lists the usernames passed to get_user, in call order
verify_user_token(table, token, t) ==
    LET dec == jwt_decode(token, SECRET_KEY, t)
    IN  IF ~dec.ok THEN [response |-> credentials_exception, lookups |-> << >>]
        ELSE IF "sub" \notin DOMAIN dec.payload
        THEN [response |-> credentials_exception, lookups |-> << >>]
        ELSE LET got == get_user(table, dec.payload.sub)
             IN  IF got.raised # ""
                 THEN [response |-> Unhandled(got.raised),
                       lookups |-> <<dec.payload.sub>>]
                 ELSE [response |-> NoResult, lookups |-> <<dec.payload.sub>>,
                       current_user |-> got.value]

\* patch_score: Depends(verify_user_token), then update_score ->
\* update_points: conn = get_connection(); cur = conn.cursor()
PatchScore(p, token, points) ==
    /\ LET v == verify_user_token(User, token, now)
       IN  IF v.response # NoResult
           THEN /\ Accept(p, [op |-> "patch_score", token |-> token,
                              points |-> points, lookups |-> v.lookups])
                /\ Respond(p, v.response)
                /\ conn' = [conn EXCEPT ![p] =
                               IF v.lookups = << >> THEN "none"
                               ELSE get_user(User, v.lookups[1]).conn]
                /\ UNCHANGED calls
           ELSE /\ Accept(p, [op |-> "patch_score", token |-> token,
                              points |-> points, lookups |-> v.lookups,
                              current_user |-> v.current_user,
                              username |-> v.current_user.username])
                /\ pc' = [pc EXCEPT ![p] = "get_user_data"]
                /\ result' = [result EXCEPT ![p] = NoResult]
                /\ conn' = [conn EXCEPT ![p] = "open"]
                /\ calls < MaxCalls
                /\ calls' = calls + 1
    /\ user' = [user EXCEPT ![p] = NULL]
    /\ UNCHANGED <<User, now, held, User_Achievement, Question>>

\* patch_score while the database server is unreachable when update_points
\* connects: get_connection prints and re-raises psycopg.OperationalError,
\* update_points prints and re-raises it, no route handler catches it
PatchScoreUnavailable(p, token, points) ==
    /\ LET v == verify_user_token(User, token, now)
       IN  /\ v.response = NoResult
           /\ Accept(p, [op |-> "patch_score", token |-> token,
                         points |-> points, lookups |-> v.lookups,
                         current_user |-> v.current_user,
                         username |-> v.current_user.username])
    /\ calls < MaxCalls
    /\ calls' = calls + 1
    /\ conn' = [conn EXCEPT ![p] = "failed"]
    /\ Respond(p, Unhandled("OperationalError"))
    /\ user' = [user EXCEPT ![p] = NULL]
    /\ UNCHANGED <<User, now, held, User_Achievement, Question>>

\* update_points that waits, before it reads, until no other call stands
\* between its read and its write
UpdateRead_serialized(p) ==
    /\ pc[p] = "get_user_data"
    /\ \A o \in Procs \ {p} : pc[o] # "update"
    /\ LET got == get_user_data(User, req[p].username, conn[p])
       IN  /\ conn' = [conn EXCEPT ![p] = got.conn]
           /\ IF got.raised # ""
              THEN /\ Respond(p, Unhandled(got.raised))
                   /\ UNCHANGED user
              ELSE /\ pc' = [pc EXCEPT ![p] = "update"]
                   /\ user' = [user EXCEPT ![p] = Some(got.value)]
                   /\ UNCHANGED result
    /\ UNCHANGED <<User, now, held, req, calls, User_Achievement, Question>>

\* user = get_user_data(username=username, connection=conn)
UpdateRead(p) ==
    /\ pc[p] = "get_user_data"
    /\ LET got == get_user_data(User, req[p].username, conn[p])
       IN  /\ conn' = [conn EXCEPT ![p] = got.conn]
           /\ IF got.raised # ""
              THEN /\ Respond(p, Unhandled(got.raised))
                   /\ UNCHANGED user
              ELSE /\ pc' = [pc EXCEPT ![p] = "update"]
                   /\ user' = [user EXCEPT ![p] = Some(got.value)]
                   /\ UNCHANGED result
    /\ UNCHANGED <<User, now, held, req, calls, User_Achievement, Question>>

\* int(user.score or 0)
current_score(u) == IF u.score = NULL THEN 0 ELSE u.score[1]

\* UPDATE "User" SET "score" = %s WHERE "username" = %s
update_score_column(table, username, score) ==
    {IF r.username = username THEN [r EXCEPT !.score = Some(score)] ELSE r
       : r \in table}

\* update_points whose UPDATE has no WHERE clause and runs on a connection
\* of its own
UpdateWrite_unscoped(p) ==
    /\ pc[p] = "update"
    /\ LET updated_points == current_score(user[p][1]) + req[p].points
       IN  /\ User' = {[r EXCEPT !.score = Some(updated_points)] : r \in User}
           /\ conn' = [conn EXCEPT ![p] = "closed"]
           /\ Respond(p, ScoreResponse(updated_points))
    /\ UNCHANGED <<now, held, req, user, calls, User_Achievement, Question>>

\* cur.execute(UPDATE); conn.commit(); conn.close(); return updated_points.
\* A statement on a closed connection raises OperationalError.
UpdateWrite(p) ==
    /\ pc[p] = "update"
    /\ LET updated_points == current_score(user[p][1]) + req[p].points
       IN  IF conn[p] # "open"
           THEN /\ Respond(p, Unhandled("OperationalError"))
                /\ UNCHANGED <<User, conn>>
           ELSE /\ User' = update_score_column(User, req[p].username, updated_points)
                /\ conn' = [conn EXCEPT ![p] = "closed"]
                /\ Respond(p, ScoreResponse(updated_points))
    /\ UNCHANGED <<now, held, req, user, calls, User_Achievement, Question>>

(***************************************************************************)
(* PATCH /user/achievement -> verify_user_token, unlock_user_achievement,  *)
(* add_user_achievement                                                    *)
(***************************************************************************)
AchievementIds == 1..MaxAchievements

\* add_user_achievement without the "except UniqueViolation" branch
add_user_achievement_unhandled(table, username, achievement_id) ==
    IF <<username, achievement_id>> \in table
    THEN [raised |-> "UniqueViolation", message |-> "", table |-> table]
    ELSE [raised |-> "", message |-> "User achievement added.",
          table |-> table \cup {<<username, achievement_id>>}]

\* INSERT INTO "User_Achievement"; commit; the UniqueViolation of a pair
\* that the table already holds is caught and answered with a message
add_user_achievement(table, username, achievement_id) ==
    IF <<username, achievement_id>> \in table
    THEN [raised |-> "", message |-> "User achievement already exists.",
          table |-> table]
    ELSE [raised |-> "", message |-> "User achievement added.",
          table |-> table \cup {<<username, achievement_id>>}]

\* patch_user_achievement: Depends(verify_user_token), then
\* unlock_user_achievement(current_user.username, achievement)
PatchAchievement(p, token, achievement_id) ==
    /\ LET v == verify_user_token(User, token, now)
       IN  IF v.response # NoResult
           THEN /\ Accept(p, [op |-> "patch_user_achievement", token |-> token,
                              achievement_id |-> achievement_id,
                              lookups |-> v.lookups])
                /\ Respond(p, v.response)
                /\ conn' = [conn EXCEPT ![p] =
                               IF v.lookups = << >> THEN "none"
                               ELSE get_user(User, v.lookups[1]).conn]
                /\ UNCHANGED User_Achievement
           ELSE LET add == add_user_achievement(User_Achievement,
                               v.current_user.username, achievement_id)
                IN  /\ Accept(p, [op |-> "patch_user_achievement", token |-> token,
                                  achievement_id |-> achievement_id,
                                  lookups |-> v.lookups,
                                  current_user |-> v.current_user,
                                  username |-> v.current_user.username])
                    /\ User_Achievement' = add.table
                    /\ conn' = [conn EXCEPT ![p] = "closed"]
                    /\ IF add.raised # ""
                       THEN Respond(p, Unhandled(add.raised))
                       ELSE Respond(p, [status |-> 200, detail |-> add.message])
    /\ user' = [user EXCEPT ![p] = NULL]
    /\ UNCHANGED <<User, now, held, calls, Question>>

(***************************************************************************)
(* GET /score -> get_leaderboard -> get_scores                             *)
(***************************************************************************)
Limits == (0..MaxLimit) \cup {LeaderboardCount}

\* ScoreModel(username, score)
ScoreModel(username, score) == [username |-> username, score |-> score]

\* create_score(db_results): ScoreModel(str(row[0]), int(row[1])) per row
create_score(db_results) ==
    [i \in 1..Len(db_results) |->
        ScoreModel(db_results[i].username, db_results[i].score[1])]

\* the orders in which ORDER BY "score" DESC may deliver the rows: any
\* order in which no row stands before one of a higher score
OrderByScoreDesc(rows) ==
    {s \in [1..Cardinality(rows) -> rows] :
        /\ \A i, j \in DOMAIN s : i # j => s[i] # s[j]
        /\ \A i, j \in DOMAIN s : i < j => s[i].score[1] >= s[j].score[1]}

\* LIMIT %s: the first limit rows
Limit(s, limit) == SubSeq(s, 1, IF limit < Len(s) THEN limit ELSE Len(s))

\* get_scores with the rows in ascending order of score
get_scores_ascending(table, limit) ==
    LET rows == {r \in table : r.score # NULL}
    IN  {create_score(Limit(s, limit)) :
            s \in {o \in [1..Cardinality(rows) -> rows] :
                     /\ \A i, j \in DOMAIN o : i # j => o[i] # o[j]
                     /\ \A i, j \in DOMAIN o :
                          i < j => o[i].score[1] <= o[j].score[1]}}

\* get_scores without the WHERE clause, a NULL score read as 0
get_scores_unfiltered(table, limit) ==
    {create_score(Limit(s, limit)) :
        s \in OrderByScoreDesc({[r EXCEPT !.score = Some(current_score(r))]
                                   : r \in table})}

\* SELECT "username", "score" FROM "User" WHERE "score" IS NOT NULL
\* ORDER BY "score" DESC LIMIT %s; fetchall(); create_score: the lists
\* the call may return
get_scores(table, limit) ==
    {create_score(Limit(s, limit)) :
        s \in OrderByScoreDesc({r \in table : r.score # NULL})}

\* get_leaderboard(count) = get_scores(limit=count); the connection of
\* get_scores is closed before create_score runs
GetScores(p, limit) ==
    /\ Accept(p, [op |-> "get_scores", limit |-> limit])
    /\ \E scores \in get_scores(User, limit) :
         Respond(p, [status |-> 200, detail |-> "leaderboard", scores |-> scores])
    /\ conn' = [conn EXCEPT ![p] = "closed"]
    /\ user' = [user EXCEPT ![p] = NULL]
    /\ UNCHANGED <<User, now, held, calls, User_Achievement, Question>>

(***************************************************************************)
(* update_existing_question and delete_existing_question of                *)
(* Microservice/game_service.py                                            *)
(***************************************************************************)
QuestionIds == 1..MaxQuestions
QuestionTexts == {"old", "new"}

\* a row of "Question": its "ID" and the columns an update sets
QuestionRow(question_id, question) == [ID |-> question_id, question |-> question]

\* question_exists(question_id): SELECT 1 ... WHERE "ID" = %s;
\* fetchone() is not None
question_exists(table, question_id) == \E r \in table : r.ID = question_id

\* UPDATE "Question" SET ... WHERE "ID" = %s: no row, no change, no error
update_question(table, question_id, question) ==
    {IF r.ID = question_id THEN QuestionRow(question_id, question) ELSE r
       : r \in table}

\* DELETE FROM "Question" WHERE "ID" = %s: no row, no change, no error
delete_question(table, question_id) == {r \in table : r.ID # question_id}

\* f"Frage {question_id} ..."
Frage(question_id, rest) == <<"Frage", question_id, rest>>

\* existing = question_exists(question_id); else: HTTPException(404)
QuestionCheck(p, op, question_id, question) ==
    /\ Accept(p, [op |-> op, question_id |-> question_id, question |-> question])
    /\ IF question_exists(Question, question_id)
       THEN /\ pc' = [pc EXCEPT ![p] = IF op = "update_existing_question"
                                       THEN "update_question"
                                       ELSE "delete_question"]
            /\ result' = [result EXCEPT ![p] = NoResult]
       ELSE Respond(p, HTTPException(404, Frage(question_id, "existiert nicht.")))
    /\ conn' = [conn EXCEPT ![p] = "closed"]
    /\ user' = [user EXCEPT ![p] = NULL]
    /\ UNCHANGED <<User, now, held, calls, User_Achievement, Question>>

update_existing_question(p, question_id, question) ==
    QuestionCheck(p, "update_existing_question", question_id, question)

\* a delete carries no question
delete_existing_question(p, question_id) ==
    QuestionCheck(p, "delete_existing_question", question_id, NULL)

\* return update_question(question_id, question)
UpdateQuestion(p) ==
    /\ pc[p] = "update_question"
    /\ Question' = update_question(Question, req[p].question_id, req[p].question)
    /\ Respond(p, [status |-> 200, detail |-> Frage(req[p].question_id, "geupdated.")])
    /\ conn' = [conn EXCEPT ![p] = "closed"]
    /\ UNCHANGED <<User, now, held, req, user, calls, User_Achievement>>

\* return delete_question(question_id)
DeleteQuestion(p) ==
    /\ pc[p] = "delete_question"
    /\ Question' = delete_question(Question, req[p].question_id)
    /\ Respond(p, [status |-> 200, detail |-> Frage(req[p].question_id, "gelöscht.")])
    /\ conn' = [conn EXCEPT ![p] = "closed"]
    /\ UNCHANGED <<User, now, held, req, user, calls, User_Achievement>>

(***************************************************************************)
(* Environment.                                                            *)
(***************************************************************************)
\* time passes
Advance ==
    /\ \E t \in ClockSamples : t > now /\ now' = t
    /\ UNCHANGED <<User, held, pc, req, conn, user, result, calls, User_Achievement, Question>>

\* TRUNCATE TABLE "User": every row is deleted
TruncateUser ==
    /\ User # {}
    /\ User' = {}
    /\ UNCHANGED <<now, held, pc, req, conn, user, result, calls, User_Achievement, Question>>

RegisterOps(p) ==
    \/ \E u \in Usernames, pw \in Passwords : RegisterCheck(p, u, pw)
    \/ RegisterInsert(p)

QuizbusterOps(p) ==
    \/ \E u \in Usernames, pw \in Passwords : QuizbusterCheck(p, u, pw)
    \/ QuizbusterInsert(p)

LoginOps(p) ==
    \E u \in Usernames, pw \in Passwords : Login(p, u, pw)

ScoreOps(p) ==
    \/ \E h \in held, d \in Points : PatchScore(p, h.token, d)
    \/ UpdateRead(p)
    \/ UpdateWrite(p)

CraftedOps(p) ==
    \E token \in Crafted, d \in Points : PatchScore(p, token, d)

OutageOps(p) ==
    \E h \in held, d \in Points : PatchScoreUnavailable(p, h.token, d)

AchievementOps(p) ==
    \E h \in held, a \in AchievementIds : PatchAchievement(p, h.token, a)

TamperedOps(p) ==
    \E h \in held, d \in Points :
        \E token \in Tampered(h.token) : PatchScore(p, token, d)

(***************************************************************************)
(* Specifications.                                                         *)
(***************************************************************************)
\* logins and score updates, one request at a time, while time passes
Next ==
    \/ LoginOps(1)
    \/ ScoreOps(1)
    \/ CraftedOps(1)
    \/ TamperedOps(1)
    \/ Advance

Spec == Init /\ [][Next]_vars

\* the sessions of alice and bob: a registration, logins, score updates and
\* requests with tokens of a client's own making, while time passes
NextSession ==
    \/ RegisterCheck(1, "bob", Pw)
    \/ RegisterInsert(1)
    \/ \E u \in Usernames : Login(1, u, Pw)
    \/ \E h \in held : PatchScore(1, h.token, 1)
    \/ \E token \in Crafted : PatchScore(1, token, 1)
    \/ UpdateRead(1)
    \/ UpdateWrite(1)
    \/ Advance

SpecSession == Init /\ [][NextSession]_vars

\* concurrent registrations against one table, and logins
NextRegister ==
    \/ \E p \in Procs : RegisterOps(p)
    \/ LoginOps(1)

SpecRegister == Init /\ [][NextRegister]_vars

\* registrations through both services, the script, and logins
NextLegacy ==
    \/ \E p \in Procs : QuizbusterOps(p)
    \/ RegisterOps(1)
    \/ LoginOps(1)
    \/ RunDatabaseOperations(1)

SpecLegacy == Init /\ [][NextLegacy]_vars

\* concurrent score updates, by clients that logged in
NextScore == \E p \in Procs : LoginOps(p) \/ ScoreOps(p)

SpecScore == Init /\ [][NextScore]_vars

\* score updates by a client that has just registered, next to others
NextPlay ==
    \/ RegisterOps(1)
    \/ LoginOps(1)
    \/ \E p \in Procs : ScoreOps(p)

SpecPlay == Init /\ [][NextPlay]_vars

\* bob registers, alice logs in, and both update their scores next to each
\* other; an update_points call that has begun runs on, since the server
\* gives each request handler its turn
NextPair ==
    \/ RegisterCheck(1, "bob", Pw)
    \/ RegisterInsert(1)
    \/ Login(1, "alice", Pw)
    \/ \E p \in Procs : ScoreOps(p)

SpecPair ==
    /\ Init
    /\ [][NextPair]_vars
    /\ \A p \in Procs : WF_vars(UpdateRead(p)) /\ WF_vars(UpdateWrite(p))

\* alice and bob unlock achievements next to each other
NextAchievement ==
    \/ RegisterCheck(1, "bob", Pw)
    \/ RegisterInsert(1)
    \/ \E p \in Procs : Login(p, "alice", Pw)
    \/ \E p \in Procs : AchievementOps(p)

SpecAchievement == Init /\ [][NextAchievement]_vars

\* every operation on the database next to the leaderboard, over any table
NextBoard ==
    \/ RegisterCheck(1, "bob", Pw)
    \/ RegisterInsert(1)
    \/ \E u \in Usernames : Login(1, u, Pw)
    \/ \E h \in held : PatchScore(1, h.token, 0)
    \/ \E h \in held : PatchScoreUnavailable(1, h.token, 0)
    \/ UpdateRead(1)
    \/ UpdateWrite(1)
    \/ \E h \in held : PatchAchievement(1, h.token, 1)
    \/ \E limit \in Limits : GetScores(NumProcs, limit)

SpecBoard == InitBoard /\ [][NextBoard]_vars

\* a "Question" table that holds any of the ids
InitQuestion ==
    /\ User = {Row("alice", bcrypt(Pw, 1), "user", Some(InitScore))}
    /\ now = 0
    /\ held = {}
    /\ pc = [p \in Procs |-> "idle"]
    /\ req = [p \in Procs |-> [op |-> "none"]]
    /\ conn = [p \in Procs |-> "none"]
    /\ user = [p \in Procs |-> NULL]
    /\ result = [p \in Procs |-> NoResult]
    /\ calls = 0
    /\ User_Achievement = {}
    /\ \E ids \in SUBSET QuestionIds :
         Question = {QuestionRow(i, "old") : i \in ids}

\* updates and deletes of questions next to each other
NextQuestion ==
    \/ \E p \in Procs, i \in QuestionIds, question \in QuestionTexts :
         update_existing_question(p, i, question)
    \/ \E p \in Procs, i \in QuestionIds : delete_existing_question(p, i)
    \/ \E p \in Procs : UpdateQuestion(p)
    \/ \E p \in Procs : DeleteQuestion(p)

SpecQuestion == InitQuestion /\ [][NextQuestion]_vars

\* logins and score updates while the table may be emptied and the
\* database server may be unreachable
NextTruncate ==
    \/ TruncateUser
    \/ \E p \in Procs : LoginOps(p) \/ ScoreOps(p)
    \/ OutageOps(1)

SpecTruncate == Init /\ [][NextTruncate]_vars

(***************************************************************************)
(* Claims.                                                                 *)
(***************************************************************************)
HasRow(username) == \E r \in User : r.username = username
RowsOf(username) == {r \in User : r.username = username}

\* worker p has answered a PATCH /user/score that reached update_points
\* for username with the delta points
Updated(p, username, points) ==
    /\ pc[p] = "idle"
    /\ req[p].op = "patch_score"
    /\ "username" \in DOMAIN req[p]
    /\ req[p].username = username
    /\ req[p].points = points

\* C1: when the only update_points calls made are NumProcs concurrent
\* update_points("alice", 1), one per worker, and all have ended, alice's
\* stored score is the starting score plus NumProcs.
C1_NoLostUpdate ==
    (calls = NumProcs /\ \A p \in Procs : Updated(p, "alice", 1))
        => \A r \in RowsOf("alice") : r.score = Some(InitScore + NumProcs)

\* C2: an update_points(username, d) that found the user with score S has
\* answered S + d, and the user's row shows S + d.
C2_ReturnsAndStoresSum ==
    \A p \in Procs :
        (pc[p] = "idle" /\ req[p].op = "patch_score" /\ user[p] # NULL)
            => LET total == current_score(user[p][1]) + req[p].points
               IN  /\ result[p] = ScoreResponse(total)
                   /\ \A r \in RowsOf(req[p].username) : r.score = Some(total)

\* C3: when update_points is about to execute its UPDATE and commit, the
\* connection it obtained at its start is still open.
C3_ConnectionStillOpen ==
    \A p \in Procs : pc[p] = "update" => conn[p] = "open"

\* worker p has answered a request of kind op
Answered(p, op) == pc[p] = "idle" /\ req[p].op = op /\ result[p] # NoResult

\* this step is worker p taking up a request of kind op
Takes(p, op) ==
    /\ pc[p] = "idle"
    /\ req'[p].op = op
    /\ <<pc'[p], req'[p], result'[p]>> # <<pc[p], req[p], result[p]>>

\* C4: a register for a username that has a row answers 409 in that step,
\* changes no row and issues no token.
C4_TakenNameConflict ==
    [][\A p \in Procs :
          (Takes(p, "register") /\ HasRow(req'[p].username))
              => /\ pc'[p] = "idle"
                 /\ result'[p].status = 409
                 /\ User' = User
                 /\ held' = held]_vars

\* two register calls for bob, one answered with a token and then one
\* answered 409
C4_Witness ==
    \E p, q \in Procs :
        /\ Answered(p, "register") /\ req[p].username = "bob"
        /\ result[p].status = 200
        /\ Answered(q, "register") /\ req[q].username = "bob"
        /\ result[q].status = 409
        /\ \E r \in RowsOf("bob") : verify_password(req[p].password, r.password)

\* C5: a register call that does not succeed answers 409, also when
\* another registration of the same username won between its user_exists
\* check and its insert; and two register calls for one username never
\* both succeed.
C5_RaceLoserGetsConflict ==
    /\ \A p \in Procs :
          (Answered(p, "register") /\ result[p].status # 200)
              => result[p].status = 409
    /\ \A p, q \in Procs :
          (/\ p # q
           /\ Answered(p, "register") /\ Answered(q, "register")
           /\ req[p].username = req[q].username)
              => ~(result[p].status = 200 /\ result[q].status = 200)

\* C6: a username names at most one row; a row's password hash never
\* changes once written; and the row of a successful registration holds
\* the hash of the password that registration submitted.
C6_OneRowFirstHash ==
    /\ [](\A r1, r2 \in User : r1.username = r2.username => r1 = r2)
    /\ [][\A r \in User : \A r2 \in User' :
             r2.username = r.username => r2.password = r.password]_vars
    /\ [](\A p \in Procs :
             (Answered(p, "register") /\ result[p].status = 200)
                 => \E r \in RowsOf(req[p].username) :
                        r.password.digest =
                            <<r.password.salt, Truncate(req[p].password)>>)

\* two concurrent registrations of bob with different passwords have both
\* ended: one succeeded, the other did not, and bob's row holds the hash of
\* the first one's password
C6_Witness ==
    \E p, q \in Procs :
        /\ Answered(p, "register") /\ Answered(q, "register")
        /\ req[p].username = "bob" /\ req[q].username = "bob"
        /\ req[p].password # req[q].password
        /\ result[p].status = 200
        /\ result[q].status = 500
        /\ \E r \in RowsOf("bob") : r.password.digest[2] = Truncate(req[p].password)

\* C7: every login that fails, for a wrong password or for a username
\* without a row, answers the same 401.
C7_SameFailure ==
    \A p \in Procs :
        (Answered(p, "login") /\ result[p].status # 200)
            => result[p] = HTTPException(401, "Falscher Nutzername oder Passwort")

\* the token is correctly signed with the server's key, carries a subject
\* and is not expired at time t
ValidAt(token, t) ==
    /\ token.fmt = "jwt"
    /\ token.sig = <<SECRET_KEY, token.payload>>
    /\ "sub" \in DOMAIN token.payload
    /\ t < token.payload.exp * TicksPerSecond

\* C8: a PATCH /user/score with a correctly signed, unexpired token whose
\* subject has no row answers the 401 of verify_user_token.
C8_DeletedUserUnauthorized ==
    [][\A p \in Procs :
          (/\ Takes(p, "patch_score")
           /\ ValidAt(req'[p].token, now)
           /\ ~HasRow(req'[p].token.payload.sub))
              => pc'[p] = "idle" /\ result'[p] = credentials_exception]_vars

\* the first instant at which the token of h counts as expired: jwt.encode
\* writes exp in whole seconds, so the lifetime ends at the start of the
\* second in which iat + TTL falls
ExpTick(h) == ((h.iat + TTLTicks) \div TicksPerSecond) * TicksPerSecond

\* verification accepts the token of h now and yields the subject it was
\* issued for
AcceptedNow(h) ==
    LET v == verify_user_token(User, h.token, now)
    IN  v.response = NoResult /\ v.current_user.username = h.sub

\* verification rejects the token of h now with the 401
RejectedNow(h) ==
    verify_user_token(User, h.token, now).response = credentials_exception

\* this step is worker p answering PATCH /user/score, sent with the expired
\* token of h, with the 401 and without starting update_points
ExpiredUnauthorized(p, h) ==
    (Takes(p, "patch_score") /\ req'[p].token = h.token /\ now >= ExpTick(h))
        => /\ pc'[p] = "idle"
           /\ result'[p] = credentials_exception
           /\ calls' = calls

\* C9 as stated: a token issued at t0 is accepted, yielding its subject, at
\* every t1 with t0 <= t1 < t0 + TTL and rejected at every t1 >= t0 + TTL.
C9_ValidForFullTTL ==
    \A h \in held :
        h.iat <= now
            => IF now < h.iat + TTLTicks THEN AcceptedNow(h) ELSE RejectedNow(h)

\* C9, amended: a token issued at t0 is accepted, yielding its subject, at
\* every t1 from t0 up to the start of the second in which t0 + TTL falls,
\* and rejected from that instant on, hence at every t1 >= t0 + TTL; a
\* PATCH /user/score sent with the expired token answers 401.
C9_ValidUntilExpSecond ==
    /\ [](\A h \in held :
             h.iat <= now
                 => IF now < ExpTick(h) THEN AcceptedNow(h) ELSE RejectedNow(h))
    /\ [][\A p \in Procs : \A h \in held : ExpiredUnauthorized(p, h)]_vars

\* a token issued in the middle of a second has been refused with the 401
\* by PATCH /user/score less than TTL after its issue
C9_Witness ==
    \E h \in held :
        /\ h.iat % TicksPerSecond # 0
        /\ ExpTick(h) <= now /\ now < h.iat + TTLTicks
        /\ Answered(1, "patch_score")
        /\ req[1].token = h.token
        /\ result[1] = credentials_exception

\* decoding the token at time t fails, or yields a payload without sub
Undecodable(token, t) ==
    \/ token.fmt # "jwt"
    \/ token.sig # <<SECRET_KEY, token.payload>>
    \/ token.payload.exp * TicksPerSecond <= t
    \/ "sub" \notin DOMAIN token.payload

\* C10: when decoding the token fails (unparseable, signature mismatch,
\* expired) or the payload has no sub, verify_user_token raises the 401
\* "Could not validate credentials" and returns no user: the request ends
\* there, update_points is not started and no row changes.
C10_DecodeFailureUnauthorized ==
    [][\A p \in Procs :
          (Takes(p, "patch_score") /\ Undecodable(req'[p].token, now))
              => /\ pc'[p] = "idle"
                 /\ result'[p] = credentials_exception
                 /\ calls' = calls
                 /\ User' = User]_vars

\* a token signed with another key has been refused with the 401
C10_Witness ==
    /\ Answered(1, "patch_score")
    /\ req[1].token = WrongKey
    /\ result[1] = credentials_exception

\* the token carries a signature the server made for one of the held
\* tokens, over claims that are no longer the ones it signed
AlteredAfterSigning(token) ==
    /\ token.fmt = "jwt"
    /\ \E h \in held : token.sig = h.token.sig /\ token.payload # h.token.payload

\* C11: a token whose subject or expiry was altered after signing is
\* refused with the 401: the altered subject is not looked up in the store
\* and update_points is not started.
C11_TamperedRejected ==
    [][\A p \in Procs :
          (Takes(p, "patch_score") /\ AlteredAfterSigning(req'[p].token))
              => /\ pc'[p] = "idle"
                 /\ result'[p] = credentials_exception
                 /\ req'[p].lookups = << >>
                 /\ calls' = calls]_vars

\* an expired token whose expiry was moved into the future has been refused
C11_Witness ==
    \E h \in held :
        /\ h.token.payload.exp * TicksPerSecond <= now
        /\ Answered(1, "patch_score")
        /\ req[1].token = [h.token EXCEPT !.payload.exp = FarExp]
        /\ result[1] = credentials_exception

\* C12: when the token decodes to a payload with subject s and the table
\* holds a row for s, verify_user_token looks the store up once, with s, and
\* hands the route the user that lookup returned; when decoding fails or
\* the payload has no subject, the store is not looked up.
C12_ReturnsStoreUser ==
    [][\A p \in Procs :
          Takes(p, "patch_score")
              => IF ValidAt(req'[p].token, now)
                 THEN /\ req'[p].lookups = <<req'[p].token.payload.sub>>
                      /\ HasRow(req'[p].token.payload.sub)
                             => /\ pc'[p] = "get_user_data"
                                /\ \E r \in RowsOf(req'[p].token.payload.sub) :
                                       req'[p].current_user =
                                           UserModel(r.username, r.password, r.score)
                 ELSE req'[p].lookups = << >>]_vars

\* a PATCH /user/score with alice's token has passed verify_user_token with
\* alice's row as current_user
C12_Witness ==
    /\ pc[1] = "get_user_data"
    /\ req[1].lookups = <<"alice">>
    /\ \E r \in User : /\ r.username = "alice"
                       /\ req[1].current_user =
                              UserModel("alice", r.password, r.score)

\* C13: a register that succeeds adds exactly one row, with the request's
\* username, role 'user' and score null, to a table that had no row of that
\* username, leaves every other row as it was, and returns a bearer token
\* whose subject is the username.
C13_RegisterInsertsOneRow ==
    [][\A p \in Procs :
          (/\ pc[p] = "insert_user"
           /\ pc'[p] = "idle"
           /\ result'[p].status = 200)
              => /\ ~HasRow(req[p].username)
                 /\ \E row \in User' :
                       /\ User' = User \cup {row}
                       /\ row.username = req[p].username
                       /\ row.role = "user"
                       /\ row.score = NULL
                 /\ result'[p].detail = "bearer"
                 /\ result'[p].access_token.fmt = "jwt"
                 /\ result'[p].access_token.payload.sub = req[p].username]_vars

\* bob has registered: the table holds alice's row as before and bob's new
\* row, and the response carries a token for bob
C13_Witness ==
    \E p \in Procs :
        /\ Answered(p, "register") /\ req[p].username = "bob"
        /\ result[p].status = 200
        /\ result[p].access_token.payload.sub = "bob"
        /\ Cardinality(User) = 2
        /\ \E r \in User : r.username = "bob" /\ r.role = "user" /\ r.score = NULL
        /\ Row("alice", bcrypt(Pw, 1), "user", Some(InitScore)) \in User

\* C14: once a register(u, p) has succeeded, a login(u, q) returns a token
\* for u when q = p and fails with the 401 when q differs from p.
C14_LoginIffSamePassword ==
    [][\A p, q \in Procs :
          (/\ Takes(q, "login")
           /\ Answered(p, "register") /\ result[p].status = 200
           /\ req'[q].username = req[p].username)
              => IF req'[q].password = req[p].password
                 THEN /\ result'[q].status = 200
                      /\ result'[q].access_token.payload.sub = req[p].username
                 ELSE result'[q] =
                          HTTPException(401, "Falscher Nutzername oder Passwort")]_vars

\* C15: the password column of every row holds an output of the credential
\* hasher, whichever registration entry point wrote the row.
C15_PasswordsHashed ==
    \A r \in User :
        \E password \in Passwords, salt \in Salts :
            r.password = get_password_hash(password, salt)

C17_NullScoreCountsAsZero ==
    \A p \in Procs :
        (/\ Answered(p, "patch_score")
         /\ user[p] # NULL
         /\ user[p][1].score = NULL)
            => /\ result[p] = ScoreResponse(req[p].points)
               /\ \A r \in RowsOf(req[p].username) : r.score = Some(req[p].points)

\* C18: an update_points that finds no row for its username ends with
\* NotFound (404) and leaves the table as it is.
C18_MissingUserNotFound ==
    [][\A p \in Procs :
          (/\ pc[p] = "get_user_data"
           /\ ~HasRow(req[p].username)
           /\ pc'[p] # pc[p])
              => /\ pc'[p] = "idle"
                 /\ result'[p].status = 404
                 /\ User' = User]_vars

\* C19: an update_points whose storage step fails ends with an error of
\* the taxonomy, Unavailable (503) when the server cannot be reached, and
\* with the score as it was.
C19_StorageFailureUnavailable ==
    \A p \in Procs :
        (Answered(p, "patch_score") /\ conn[p] = "failed")
            => /\ result[p].status = 503
               /\ \A r \in RowsOf(req[p].username) : r.score = req[p].current_user.score

\* this step is worker p running a statement of PATCH /user/score
ScoreStep(p) ==
    \/ Takes(p, "patch_score")
    \/ pc[p] \in {"get_user_data", "update"} /\ pc'[p] # pc[p]

\* the rows after the step are the rows before it, except for the score of
\* the row of username
OnlyScoreOf(username) ==
    /\ \A r \in User : \E r2 \in User' :
          /\ r2.username = r.username
          /\ r2.password = r.password
          /\ r2.role = r.role
          /\ r.username # username => r2.score = r.score
    /\ \A r2 \in User' : \E r \in User : r.username = r2.username

Updating(q) == pc[q] \in {"get_user_data", "update"}

\* C21: an update_points call is never kept waiting by another call: its
\* next statement can always run, whatever step the other calls have
\* reached, it runs to its end, and its steps leave the rows of all other
\* usernames as they were.
C21_DifferentUsersDoNotBlock ==
    /\ [](\A q \in Procs :
             /\ pc[q] = "get_user_data" => ENABLED UpdateRead(q)
             /\ pc[q] = "update" => ENABLED UpdateWrite(q))
    /\ \A q \in Procs : Updating(q) ~> (pc[q] = "idle")
    /\ [][\A p \in Procs :
             (Updating(p) /\ pc'[p] # pc[p])
                 => \A r \in User : r.username # req[p].username => r \in User']_vars

\* bob's update_points has run to its end while alice's call stood between
\* its read and its write
C21_Witness ==
    \E p, q \in Procs :
        /\ pc[p] = "update" /\ req[p].username = "alice"
        /\ Answered(q, "patch_score") /\ user[q] # NULL
        /\ req[q].username = "bob"
        /\ calls = 2

\* this step is worker p passing verify_user_token: update_points begins
Admitted(p) == Takes(p, "patch_score") /\ pc'[p] = "get_user_data"

\* C22: a token issued for u is accepted at every time before the expiry
\* it carries, as long as u has a row, whatever registrations, logins
\* (of u too) and score updates have happened since it was issued.
C22_NoRevocation ==
    /\ [](\A h \in held :
             (h.iat <= now /\ now < h.token.payload.exp * TicksPerSecond
                 /\ HasRow(h.sub))
                 => AcceptedNow(h))
    /\ [][\A p \in Procs : \A h \in held :
             (/\ Takes(p, "patch_score") /\ req'[p].token = h.token
              /\ now < h.token.payload.exp * TicksPerSecond
              /\ HasRow(h.sub) /\ calls < MaxCalls)
                 => Admitted(p) /\ req'[p].username = h.sub]_vars

\* alice has logged in a second time, and a PATCH /user/score with her
\* first token, before its expiry, has passed verify_user_token
C22_Witness ==
    \E h1, h2 \in held :
        /\ h1.sub = h2.sub /\ h1.iat < h2.iat /\ h2.iat <= now
        /\ h1.token # h2.token
        /\ pc[1] = "get_user_data"
        /\ req[1].token = h1.token
        /\ req[1].username = h1.sub

\* C23: a protected operation is let through for username u only with a
\* token that a register or login of u returned at some t0 with
\* t0 <= now < t0 + TTL; with a token past its expiry it is refused with
\* the 401, so the holder has to log in again.
C23_SessionLifecycle ==
    [][\A p \in Procs :
          /\ Admitted(p)
                => \E h \in held :
                      /\ h.token = req'[p].token
                      /\ h.sub = req'[p].username
                      /\ h.iat <= now /\ now < h.iat + TTLTicks
          /\ (Takes(p, "patch_score") /\
                 \E h \in held : h.token = req'[p].token /\ now >= h.iat + TTLTicks)
                => (pc'[p] = "idle" /\ result'[p] = credentials_exception)]_vars

\* bob registered, his token ran out and was refused, he logged in again
\* and his PATCH /user/score with the new token passed verify_user_token
C23_Witness ==
    \E h1, h2 \in held :
        /\ h1.sub = "bob" /\ h2.sub = "bob"
        /\ h1.iat + TTLTicks <= h2.iat
        /\ h2.iat <= now /\ now < h2.iat + TTLTicks
        /\ pc[1] = "get_user_data"
        /\ req[1].token = h2.token

\* the token carries the signature of the server over its claims
WellSigned(token) ==
    token.fmt = "jwt" /\ token.sig = <<SECRET_KEY, token.payload>>

\* the three ways verification fails, told from the token and the time
Malformed(token) == ~WellSigned(token)
Expired(token, t) == WellSigned(token) /\ token.payload.exp * TicksPerSecond <= t
MissingSubject(token, t) ==
    /\ WellSigned(token)
    /\ t < token.payload.exp * TicksPerSecond
    /\ "sub" \notin DOMAIN token.payload

\* C24 as stated: verify_user_token answers a malformed token, a token
\* without subject and an expired token with three different outcomes.
C24_ThreeOutcomes ==
    [][\A p \in Procs :
          Takes(p, "patch_score")
              => /\ Malformed(req'[p].token)
                    => result'[p] # verify_user_token(User, NoSub, now).response
                 /\ Expired(req'[p].token, now)
                    => /\ result'[p] # verify_user_token(User, Garbage, now).response
                       /\ result'[p] # verify_user_token(User, NoSub, now).response]_vars

\* C24, amended: the kinds are told apart by jwt.decode, which raises
\* DecodeError or InvalidSignatureError for a malformed token and
\* ExpiredSignatureError for an expired one, and returns a payload without
\* "sub" for the third; verify_user_token answers all three with the same
\* 401.
C24_KindsAtDecodeOnly ==
    [][\A p \in Procs :
          Takes(p, "patch_score")
              => LET token == req'[p].token
                     dec == jwt_decode(token, SECRET_KEY, now)
                 IN  /\ Malformed(token)
                        => /\ ~dec.ok
                           /\ dec.error \in {"DecodeError", "InvalidSignatureError"}
                           /\ result'[p] = credentials_exception
                     /\ Expired(token, now)
                        => /\ ~dec.ok
                           /\ dec.error = "ExpiredSignatureError"
                           /\ result'[p] = credentials_exception
                     /\ MissingSubject(token, now)
                        => /\ dec.ok
                           /\ result'[p] = credentials_exception]_vars

\* an expired token of alice has been answered with the very response that
\* a token without subject gets
C24_Witness ==
    \E h \in held :
        /\ Expired(h.token, now)
        /\ Answered(1, "patch_score")
        /\ req[1].token = h.token
        /\ result[1] = verify_user_token(User, NoSub, now).response
        /\ result[1] = verify_user_token(User, Garbage, now).response

\* C26: the first unlock of a pair (username, achievement_id) answers
\* 'User achievement added.' and adds the pair; every later unlock of the
\* pair answers 'User achievement already exists.', raises nothing and
\* leaves the table as it is.
C26_UnlockIdempotent ==
    [][\A p \in Procs :
          (Takes(p, "patch_user_achievement") /\ "username" \in DOMAIN req'[p])
              => LET pair == <<req'[p].username, req'[p].achievement_id>>
                 IN  /\ pc'[p] = "idle"
                     /\ result'[p].status = 200
                     /\ IF pair \in User_Achievement
                        THEN /\ result'[p].detail = "User achievement already exists."
                             /\ User_Achievement' = User_Achievement
                        ELSE /\ result'[p].detail = "User achievement added."
                             /\ User_Achievement' = User_Achievement \cup {pair}]_vars

\* alice unlocked achievement 1, and a second unlock of it has been
\* answered with 'already exists'
C26_Witness ==
    \E p, q \in Procs :
        /\ p # q
        /\ Answered(p, "patch_user_achievement")
        /\ Answered(q, "patch_user_achievement")
        /\ req[p].achievement_id = 1 /\ req[q].achievement_id = 1
        /\ result[p].detail = "User achievement added."
        /\ result[q].detail = "User achievement already exists."
        /\ <<"alice", 1>> \in User_Achievement

C27_TopScores ==
    [][\A p \in Procs :
          Takes(p, "get_scores")
              => LET scores == result'[p].scores
                     limit  == req'[p].limit
                 IN  /\ result'[p].status = 200
                     /\ Len(scores) <= limit
                     /\ \A i \in DOMAIN scores :
                          \E r \in User : /\ r.username = scores[i].username
                                          /\ r.score # NULL
                                          /\ r.score[1] = scores[i].score
                     /\ \A i, j \in DOMAIN scores :
                          i < j => scores[i].score >= scores[j].score
                     /\ \A r \in User :
                          (/\ r.score # NULL
                           /\ \A i \in DOMAIN scores : scores[i].username # r.username)
                              => \A i \in DOMAIN scores :
                                    r.score[1] <= scores[i].score]_vars

\* a leaderboard of two entries with different scores that leaves out a
\* third user with a score
C27_Witness ==
    /\ Answered(NumProcs, "get_scores")
    /\ req[NumProcs].limit = 2
    /\ Len(result[NumProcs].scores) = 2
    /\ result[NumProcs].scores[1].score > result[NumProcs].scores[2].score
    /\ Cardinality({r \in User : r.score # NULL}) = 3

\* C28: insert_user leaves the score of the new row NULL, a leaderboard of
\* any limit has no entry for a row whose score is NULL, and the score of
\* a row stops being NULL only in a step in which update_points for that
\* username returns; the write of update_points with delta 0 on a NULL
\* score puts the user on every leaderboard that has room for all rows.
C28_OnBoardOnlyAfterUpdate ==
    /\ [][/\ \A r \in User' \ User :
               (~HasRow(r.username)) => r.score = NULL
          /\ \A p \in Procs :
               Takes(p, "get_scores")
                   => \A i \in DOMAIN result'[p].scores :
                        \E r \in User : /\ r.username = result'[p].scores[i].username
                                        /\ r.score # NULL
          /\ \A r \in User, n \in User' :
               (r.username = n.username /\ r.score = NULL /\ n.score # NULL)
                   => \E p \in Procs :
                        /\ pc[p] = "update"
                        /\ req[p].username = r.username
                        /\ result'[p].status = 200]_vars
    /\ [](\A r \in User :
            r.score = NULL
                => LET after == update_score_column(User, r.username,
                                                    current_score(r) + 0)
                   IN  \A scores \in get_scores(after, LeaderboardCount) :
                          \E i \in DOMAIN scores :
                              /\ scores[i].username = r.username
                              /\ scores[i].score = 0)

\* bob registered, update_points for bob has raised, and a leaderboard
\* with entries has none for bob
C28_Witness ==
    /\ Answered(1, "patch_score")
    /\ "username" \in DOMAIN req[1]
    /\ req[1].username = "bob"
    /\ result[1].status = 500
    /\ \E r \in User : r.username = "bob" /\ r.score = NULL
    /\ Answered(NumProcs, "get_scores")
    /\ req[NumProcs].limit = LeaderboardCount
    /\ Len(result[NumProcs].scores) > 0
    /\ \A i \in DOMAIN result[NumProcs].scores :
          result[NumProcs].scores[i].username # "bob"

\* C29: update_existing_question and delete_existing_question for an id
\* without a row answer 404 and change no row, and the write that answers
\* with the success message finds a row with that id to update or delete,
\* whatever other updates and deletes ran since the existence check.
C29_SuccessMeansWritten ==
    [][\A p \in Procs :
          /\ (/\ \/ Takes(p, "update_existing_question")
                 \/ Takes(p, "delete_existing_question")
              /\ ~question_exists(Question, req'[p].question_id))
                 => /\ result'[p].status = 404
                    /\ pc'[p] = "idle"
                    /\ Question' = Question
          /\ (/\ pc[p] \in {"update_question", "delete_question"}
              /\ pc'[p] = "idle"
              /\ result'[p].status = 200)
                 => question_exists(Question, req[p].question_id)]_vars
=============================================================================
